---- MODULE Spec2Model ----
\* A model of server.js (the Seedream/Replicate proxy): the retrying HTTP client
\* (abortableFetch, readResp, shouldRetry, fetchRetry), createSinglePrediction,
\* and the handlers POST /api/generate and GET /api/predictions/:id.
\*
\* One "call" is one promise chain awaited by a handler: a createSinglePrediction
\* invocation (batch slots 1..4) or the poll handler's single fetchRetry (slot 1).
\* Every await of the code (response head, response body, backoff sleep) is a
\* position of the call; the code between two awaits is one atomic step.
EXTENDS Integers, Sequences, FiniteSets, TLC

\* ------------------------------------------------------------------ constants
\* server.js:26  const MAX_RETRIES = Number(process.env.MAX_RETRIES || 4)
MAX_RETRIES == 4
\* server.js:206  Math.min(4, ...)
MAX_IMAGES == 4
\* server.js:206  Math.max(1, ...) and the "|| 1" default
MIN_IMAGES == 1
\* server.js:76/87  1000 * Math.pow(2, attempt)
BACKOFF_BASE_MS == 1000
\* server.js:76/87  Math.min(..., 8000)
BACKOFF_CAP_MS == 8000

\* ------------------------------------------------------------------ bounds
\* How many times, in one run of the /api/generate specification, the upstream may
\* answer otherwise than with a 200 and the plain document asked for (a non-2xx head,
\* an abort, a network error, a body of another shape or content).
MaxFaults == 1

\* ------------------------------------------------------------------ values
Labels == {"official-predict", "model-info", "predictions", "poll"}

\* The statuses the upstream answers with.
Statuses == {200, 400, 404, 405, 429, 500, 503}

\* An identifier the upstream gives a prediction: opaque, one per creation request.
NullId == [call |-> 0, stage |-> "null"]
IdOf(i, stage) == [call |-> i, stage |-> stage]

\* A text: a response body as sent, or an error message. kind names its content.
Text(kind, id) == [kind |-> kind, id |-> id]
NoText == Text("", NullId)
AbortText == Text("The user aborted a request.", NullId)
NetText == Text("request failed, reason: connect ECONNREFUSED", NullId)
CloseText == Text("Premature close", NullId)
SyntaxText == Text("Unexpected token < in JSON", NullId)
NoVersionText == Text("latest_version.id not found", NullId)
ExhaustedText == Text("failed after retries", NullId)

\* String.prototype.includes on the lower-cased text, for the two words the code
\* looks for.
Includes(text, word) ==
    \/ word = "aborted" /\ text.kind = "The user aborted a request."
    \/ word = "timeout" /\ text.kind = "{detail: upstream timeout}"

\* A list value (an array) or anything that is not an array.
Lst(items) == [isList |-> TRUE, items |-> items]
NotLst == [isList |-> FALSE, items |-> <<>>]

\* The `output` of a prediction document, by the shape the upstream uses.
OutShapes == {"absent", "flat", "images", "data", "both"}
OutputOf(shape, id) ==
    [flat   |-> IF shape = "flat" THEN Lst(<<[of |-> id, at |-> "flat"]>>) ELSE NotLst,
     images |-> IF shape \in {"images", "both"}
                THEN Lst(<<[of |-> id, at |-> "images"]>>) ELSE NotLst,
     data   |-> IF shape \in {"data", "both"}
                THEN Lst(<<[of |-> id, at |-> "data"]>>) ELSE NotLst]

\* A JSON value: an object with the fields the code reads, or null.
JsonNull ==
    [type |-> "null", id |-> NullId, version |-> NullId, hasUrls |-> FALSE,
     status |-> "", output |-> OutputOf("absent", NullId)]
JsonObj(id, version, hasUrls, status, output) ==
    [type |-> "object", id |-> id, version |-> version, hasUrls |-> hasUrls,
     status |-> status, output |-> output]
EmptyObj == JsonObj(NullId, NullId, FALSE, "", OutputOf("absent", NullId))

\* JSON.parse of a text: ok = FALSE when it throws.
JSONparse(text) ==
    CASE text.kind \in OutShapes ->
            [ok |-> TRUE,
             value |-> JsonObj(text.id, NullId, TRUE, "starting", OutputOf(text.kind, text.id))]
      [] text.kind = "{latest_version}" ->
            [ok |-> TRUE, value |-> JsonObj(NullId, text.id, FALSE, "", OutputOf("absent", NullId))]
      [] text.kind = "{}" -> [ok |-> TRUE, value |-> EmptyObj]
      [] text.kind = "{detail: upstream timeout}" -> [ok |-> TRUE, value |-> EmptyObj]
      [] text.kind = "null" -> [ok |-> TRUE, value |-> JsonNull]
      [] OTHER -> [ok |-> FALSE, value |-> JsonNull]

\* ------------------------------------------------------------------ errors
NoErr == [name |-> "none", labels |-> <<>>, status |-> 0, text |-> NoText]
Err(name, labels, status, text) ==
    [name |-> name, labels |-> labels, status |-> status, text |-> text]
AbortError == Err("AbortError", <<>>, 0, AbortText)
NetError == Err("FetchError", <<>>, 0, NetText)
CloseError == Err("FetchError", <<>>, 0, CloseText)
SyntaxError == Err("SyntaxError", <<>>, 0, SyntaxText)

\* new Error(`[${label}] ${msg}`) where msg is err.message
Wrap(label, err) == Err("Error", <<label>> \o err.labels, err.status, err.text)

\* ------------------------------------------------------------------ readResp
\* readResp: { raw: text, json: JSON.parse(text) } or { raw: text, json: null }
readResp(text) ==
    [raw |-> text, json |-> IF JSONparse(text).ok THEN JSONparse(text).value ELSE JsonNull]

\* body.json ?? JSON.parse(body.raw || "{}") : ok = FALSE when JSON.parse throws
ParseBody(text) ==
    LET body == readResp(text) IN
    IF body.json.type # "null" THEN [ok |-> TRUE, value |-> body.json]
    ELSE IF body.raw.kind = "" THEN [ok |-> TRUE, value |-> EmptyObj]
    ELSE JSONparse(body.raw)

\* ------------------------------------------------------------------ shouldRetry
isTransient(status) == status \in {502, 503, 504, 408}

\* "" + err, lower-cased, includes the word: the labels of this server hold neither
\* word, so only the message text decides.
ErrIncludes(err, word) == err # NoErr /\ Includes(err.text, word)

\* shouldRetry(respStatus, err); respStatus = 0 stands for null/undefined.
shouldRetry(respStatus, err) ==
    \/ respStatus # 0 /\ isTransient(respStatus)
    \/ respStatus = 429
    \/ ErrIncludes(err, "aborted")
    \/ ErrIncludes(err, "timeout")

RECURSIVE Pow2(_)
Pow2(k) == IF k = 0 THEN 1 ELSE 2 * Pow2(k - 1)

Min(a, b) == IF a <= b THEN a ELSE b

\* waitMs doubling from the second retry on only: 1000 * 2^max(attempt - 1, 0).
waitMsLate(attempt) ==
    Min(BACKOFF_BASE_MS * Pow2(IF attempt = 0 THEN 0 ELSE attempt - 1), BACKOFF_CAP_MS)

\* const waitMs = Math.min(1000 * Math.pow(2, attempt), 8000)
waitMs(attempt) == Min(BACKOFF_BASE_MS * Pow2(attempt), BACKOFF_CAP_MS)

ok(status) == status >= 200 /\ status <= 299

\* ------------------------------------------------------------------ request values
\* A value of the JSON request body: undefined (missing), a string (its characters)
\* or a number (whole + half/2, so that fractions are values too).
JsUndefined == [type |-> "undefined", chars |-> <<>>, whole |-> 0, half |-> 0]
JsString(chars) == [type |-> "string", chars |-> chars, whole |-> 0, half |-> 0]
JsNumber(whole, half) == [type |-> "number", chars |-> <<>>, whole |-> whole, half |-> half]

\* A number as the code computes with it: NaN, or whole + half/2.
NaN == [nan |-> TRUE, whole |-> 0, half |-> 0]
Num(whole, half) == [nan |-> FALSE, whole |-> whole, half |-> half]

RECURSIVE trimStart(_)
trimStart(chars) ==
    IF chars # <<>> /\ Head(chars) = " " THEN trimStart(Tail(chars)) ELSE chars

RECURSIVE trimEnd(_)
trimEnd(chars) ==
    IF chars # <<>> /\ chars[Len(chars)] = " "
    THEN trimEnd(SubSeq(chars, 1, Len(chars) - 1)) ELSE chars

\* String.prototype.trim
trim(chars) == trimEnd(trimStart(chars))

Digits == [c \in {"0", "1", "2", "3", "4", "5", "6", "7", "8", "9"} |->
             CASE c = "0" -> 0 [] c = "1" -> 1 [] c = "2" -> 2 [] c = "3" -> 3
               [] c = "4" -> 4 [] c = "5" -> 5 [] c = "6" -> 6 [] c = "7" -> 7
               [] c = "8" -> 8 [] OTHER -> 9]

\* Number(v): undefined is NaN; a string is trimmed, "" is 0, one digit is its
\* value, anything else here is NaN.
Number(v) ==
    CASE v.type = "undefined" -> NaN
      [] v.type = "number" -> Num(v.whole, v.half)
      [] OTHER ->
            LET t == trim(v.chars) IN
            IF t = <<>> THEN Num(0, 0)
            ELSE IF Len(t) = 1 /\ t[1] \in DOMAIN Digits THEN Num(Digits[t[1]], 0)
            ELSE NaN

\* !v
Falsy(v) ==
    CASE v.type = "undefined" -> TRUE
      [] v.type = "string" -> v.chars = <<>>
      [] OTHER -> v.whole = 0 /\ v.half = 0

\* x <= y on numbers that are not NaN
Leq(x, y) == x.whole < y.whole \/ (x.whole = y.whole /\ x.half <= y.half)

\* Math.min / Math.max (NaN if either is NaN)
MathMin(x, y) == IF x.nan \/ y.nan THEN NaN ELSE IF Leq(x, y) THEN x ELSE y
MathMax(x, y) == IF x.nan \/ y.nan THEN NaN ELSE IF Leq(x, y) THEN y ELSE x

\* x || 1 on a number: NaN and 0 are falsy
OrOne(x) == IF x.nan \/ (x.whole = 0 /\ x.half = 0) THEN Num(MIN_IMAGES, 0) ELSE x

\* const n = Math.max(1, Math.min(4, Number(numImages) || 1))
EffectiveCount(numImages) ==
    MathMax(Num(MIN_IMAGES, 0), MathMin(Num(MAX_IMAGES, 0), OrOne(Number(numImages))))

\* Array.from({ length: n }, ...): ToLength truncates n to an integer
ArrayLength(n) == n.whole

\* createSinglePrediction's input object
InputOf(prompt, aspect, imageUrl) ==
    [prompt |-> prompt,
     aspect_ratio |-> IF Falsy(aspect) THEN JsUndefined ELSE aspect,
     aspect |-> IF Falsy(aspect) THEN JsUndefined ELSE aspect,
     image |-> IF Falsy(imageUrl) THEN JsUndefined ELSE imageUrl,
     image_url |-> IF Falsy(imageUrl) THEN JsUndefined ELSE imageUrl,
     input_image |-> IF Falsy(imageUrl) THEN JsUndefined ELSE imageUrl,
     reference_image |-> IF Falsy(imageUrl) THEN JsUndefined ELSE imageUrl]

NoReq ==
    [kind |-> "none", prompt |-> JsUndefined, numImages |-> JsUndefined,
     aspect |-> JsUndefined, imageUrl |-> JsUndefined, id |-> NullId,
     dataUrl |-> JsUndefined]

\* ------------------------------------------------------------------ state
VARIABLES
    token,    \* Boolean(REPLICATE_TOKEN): whether the credential is configured
    req,      \* the request being served (NoReq before it arrives)
    n,        \* /api/generate's const n (NaN before it is computed)
    hpc,      \* the handler's position
    res,      \* the response sent to the client (NoRes before it is sent)
    results,  \* Promise.all's array of values, one slot per job
    call,     \* the promise chains the handler awaits, by slot
    budget,   \* upstream misbehaviours still allowed in this run
    files,    \* the files of UPLOAD_DIR, each a name and its content
    writes    \* the names fs.writeFileSync was called with, in order

vars == <<token, req, n, hpc, res, results, call, budget, files, writes>>

\* The upload directory and the writes to it.
disk == <<files, writes>>

Slots == 1..MAX_IMAGES

\* ------------------------------------------------------------------ calls
NoSent == [l \in Labels |-> 0]

IdleCall ==
    [state |-> "idle", stage |-> "none", phase |-> "none", attempt |-> 0,
     timer |-> FALSE, status |-> 0, lastErr |-> NoErr, tries |-> 0,
     sleeps |-> <<>>, hist |-> <<>>, sent |-> NoSent, acks |-> 0,
     returned |-> FALSE, raw |-> NoText,
     version |-> NullId, value |-> JsonNull, error |-> NoErr,
     input |-> InputOf(JsUndefined, JsUndefined, JsUndefined)]

\* The requests that create a prediction upstream.
CreationStages == {"official-predict", "predictions"}

\* What the upstream did to one attempt.
Outcome(kind, status) == [kind |-> kind, status |-> status]

\* abortableFetch: arm the timer, dispatch the request.
abortableFetch(c) ==
    [c EXCEPT !.phase = "head", !.timer = TRUE, !.status = 0,
              !.tries = @ + 1, !.sent[c.stage] = @ + 1]

\* fetchRetry, up to its first await: attempt = 0, lastErr = null, first fetch.
fetchRetry(c, label) ==
    abortableFetch([c EXCEPT !.state = "running", !.stage = label, !.attempt = 0,
                             !.lastErr = NoErr, !.tries = 0, !.sleeps = <<>>,
                             !.hist = <<>>, !.returned = FALSE])

\* fetch resolved with a response of status s: finally() clears the timer; a 2xx is
\* returned to the caller, who reads its body; any other is read by fetchRetry.
OnHead(c, s) ==
    [c EXCEPT !.timer = FALSE, !.status = s, !.returned = ok(s),
              !.phase = IF ok(s) THEN "body" ELSE "errbody"]

\* await sleep(waitMs)
Sleep(c, ms) == [c EXCEPT !.phase = "sleep", !.sleeps = Append(@, ms)]

\* An error leaves fetchRetry; createSinglePrediction and the poll handler's try
\* block do not catch it before the handler does: the chain rejects.
Throw(c, err) == [c EXCEPT !.state = "rejected", !.phase = "none", !.error = err]

\* The chain fulfils with a value.
Fulfil(c, value) == [c EXCEPT !.state = "fulfilled", !.phase = "none", !.value = value]

\* fetchRetry's catch block.
Catch(c, err) ==
    LET c1 == [c EXCEPT !.lastErr = err] IN
    IF shouldRetry(0, err) /\ c.attempt < MAX_RETRIES
    THEN Sleep(c1, waitMs(c.attempt))
    ELSE Throw(c1, Wrap(c.stage, err))

\* fetchRetry after a non-ok response was read: retry on a transient status, else
\* throw inside the try block, which the catch block of the same loop receives.
NonOk(c, raw) ==
    IF shouldRetry(c.status, NoErr)
    THEN Sleep(c, waitMs(c.attempt))
    ELSE Catch(c, Err("Error", <<c.stage>>, c.status, raw))

\* AfterSleep with the loop test written attempt < MAX_RETRIES.
AfterSleepOffByOne(c) ==
    LET c1 == [c EXCEPT !.attempt = @ + 1] IN
    IF c1.attempt < MAX_RETRIES
    THEN abortableFetch(c1)
    ELSE Throw(c1, IF c1.lastErr # NoErr THEN c1.lastErr
                   ELSE Err("Error", <<c.stage>>, 0, ExhaustedText))

\* AfterSleep with the loop test written attempt <= MAX_RETRIES + 1.
AfterSleepOneMore(c) ==
    LET c1 == [c EXCEPT !.attempt = @ + 1] IN
    IF c1.attempt <= MAX_RETRIES + 1
    THEN abortableFetch(c1)
    ELSE Throw(c1, IF c1.lastErr # NoErr THEN c1.lastErr
                   ELSE Err("Error", <<c.stage>>, 0, ExhaustedText))

\* fetchRetry after a sleep: attempt++, continue; the loop test; the final throw.
AfterSleep(c) ==
    LET c1 == [c EXCEPT !.attempt = @ + 1] IN
    IF c1.attempt <= MAX_RETRIES
    THEN abortableFetch(c1)
    ELSE Throw(c1, IF c1.lastErr # NoErr THEN c1.lastErr
                   ELSE Err("Error", <<c.stage>>, 0, ExhaustedText))

\* createSinglePrediction after the direct POST returned a 2xx and its body was read.
AfterOfficial(c, text) ==
    IF ParseBody(text).ok THEN Fulfil(c, ParseBody(text).value)
    ELSE fetchRetry(c, "model-info")

\* AfterModelInfo without the test of versionId: the versioned POST is sent with
\* whatever the metadata held.
AfterModelInfoUnchecked(c, text) ==
    IF ~ParseBody(text).ok THEN Throw(c, SyntaxError)
    ELSE fetchRetry([c EXCEPT !.version = ParseBody(text).value.version], "predictions")

\* createSinglePrediction after the metadata GET returned a 2xx and its body was read.
AfterModelInfo(c, text) ==
    IF ~ParseBody(text).ok THEN Throw(c, SyntaxError)
    ELSE IF ParseBody(text).value.version = NullId
         THEN Throw(c, Err("Error", <<"model-info">>, 0, NoVersionText))
         ELSE fetchRetry([c EXCEPT !.version = ParseBody(text).value.version], "predictions")

\* createSinglePrediction after the versioned POST returned a 2xx; the poll handler
\* after its GET returned a 2xx: body.json ?? JSON.parse(body.raw || "{}").
AfterLast(c, text) ==
    IF ParseBody(text).ok THEN Fulfil(c, ParseBody(text).value)
    ELSE Throw(c, SyntaxError)

\* The caller's continuation once fetchRetry returned a response and readResp read it.
Return(c, text) ==
    CASE c.stage = "official-predict" -> AfterOfficial(c, text)
      [] c.stage = "model-info" -> AfterModelInfo(c, text)
      [] OTHER -> AfterLast(c, text)

\* ------------------------------------------------------------------ responses
NoItem == [id |-> NullId, getUrl |-> NullId, webUrl |-> NullId, status |-> "", output |-> NotLst]

\* A file name of the upload directory: the random stem and the extension.
NoFile == [stem |-> "", ext |-> ""]

NoRes ==
    [status |-> 0, mode |-> "", count |-> 0, items |-> <<>>, error |-> NoErr,
     body |-> JsonNull, url |-> NoFile]

\* res.status(code).json({ error: err?.message || String(err) })
ErrorRes(code, err) == [NoRes EXCEPT !.status = code, !.error = err]

\* NormalizeOutput looking at output.data before output.images.
NormalizeOutputDataFirst(output) ==
    IF output.flat.isList THEN output.flat
    ELSE IF output.data.isList THEN output.data
    ELSE IF output.images.isList THEN output.images
    ELSE NotLst

\* The normalized output: output if it is an array, else output.images, else
\* output.data, else null.
NormalizeOutput(output) ==
    IF output.flat.isList THEN output.flat
    ELSE IF output.images.isList THEN output.images
    ELSE IF output.data.isList THEN output.data
    ELSE NotLst

\* ItemOf reading the id from the wrong field of the document.
ItemOfWrongId(r) ==
    [id |-> r.version,
     getUrl |-> IF r.hasUrls THEN r.id ELSE NullId,
     webUrl |-> IF r.hasUrls THEN r.id ELSE NullId,
     status |-> r.status,
     output |-> NormalizeOutput(r.output)]

\* { id: r?.id ?? null, getUrl: r?.urls?.get ?? null, webUrl: r?.urls?.web ?? null,
\*   status: r?.status ?? null, output: outputs || null }
ItemOf(r) ==
    [id |-> r.id,
     getUrl |-> IF r.hasUrls THEN r.id ELSE NullId,
     webUrl |-> IF r.hasUrls THEN r.id ELSE NullId,
     status |-> r.status,
     output |-> NormalizeOutput(r.output)]

SingleRes(data) ==
    [NoRes EXCEPT !.status = 200, !.mode = "single", !.items = <<ItemOf(data)>>]

BatchRes(values) ==
    [NoRes EXCEPT !.status = 200, !.mode = "batch", !.count = Len(values),
                  !.items = [k \in 1..Len(values) |-> ItemOf(values[k])]]

PollRes(json) == [NoRes EXCEPT !.status = 200, !.body = json]

\* ------------------------------------------------------------------ Promise.all
EmptySlot == [filled |-> FALSE, value |-> JsonNull]

\* PromiseAllStore collecting the values as they arrive: the value goes to the first
\* slot not yet filled.
PromiseAllStoreInCompletionOrder(values, i, v) ==
    LET free == {k \in 1..Len(values) : ~values[k].filled}
        first == CHOOSE k \in free : \A m \in free : k <= m
    IN [values EXCEPT ![first] = [filled |-> TRUE, value |-> v]]

\* Promise.all stores the value of the i-th promise at index i.
PromiseAllStore(values, i, v) == [values EXCEPT ![i] = [filled |-> TRUE, value |-> v]]

AllFilled(values) == \A k \in 1..Len(values) : values[k].filled

\* ------------------------------------------------------------------ handlers
\* The handler's own state, as one value.
Handler == [hpc |-> hpc, res |-> res, results |-> results]

\* The handler's continuation when the chain in slot i fulfils with v:
\* the poll handler and the single branch respond; Promise.all stores the value and
\* the batch branch responds once every slot is filled.
OnFulfilled(h, i, v) ==
    CASE h.hpc = "awaitPoll" -> [h EXCEPT !.hpc = "responded", !.res = PollRes(v)]
      [] h.hpc = "awaitSingle" -> [h EXCEPT !.hpc = "responded", !.res = SingleRes(v)]
      [] h.hpc = "awaitAll" ->
            LET stored == PromiseAllStore(h.results, i, v) IN
            IF AllFilled(stored)
            THEN [h EXCEPT !.hpc = "responded", !.results = stored,
                           !.res = BatchRes([k \in 1..Len(stored) |-> stored[k].value])]
            ELSE [h EXCEPT !.results = stored]
      [] OTHER -> h

\* OnRejected as Promise.allSettled would have it: a rejection fills its slot with
\* null and the batch goes on to answer with the rest.
OnRejectedSettled(h, i, err) == OnFulfilled(h, i, JsonNull)

\* OnRejected passing the upstream's status on to the client when the error carries
\* one, as the handler of the earlier revision did for a non-ok lookup.
OnRejectedPreserving(h, i, err) ==
    IF h.hpc \in {"awaitPoll", "awaitSingle", "awaitAll"}
    THEN [h EXCEPT !.hpc = "responded",
                   !.res = ErrorRes(IF err.status # 0 THEN err.status ELSE 502, err)]
    ELSE h

\* The handler's continuation when the chain in slot i rejects with err: the first
\* rejection reaches the handler's catch block, later ones reach nobody.
OnRejected(h, i, err) ==
    IF h.hpc \in {"awaitPoll", "awaitSingle", "awaitAll"}
    THEN [h EXCEPT !.hpc = "responded", !.res = ErrorRes(502, err)]
    ELSE h

\* AfterStep with one abort signal shared by the batch: the rejection that reaches
\* the handler aborts every sibling call still running.
AfterStepCancelling(i, c2) ==
    LET h2 == CASE c2.state = "fulfilled" -> OnFulfilled(Handler, i, c2.value)
                [] c2.state = "rejected" -> OnRejected(Handler, i, c2.error)
                [] OTHER -> Handler
    IN /\ call' = [j \in Slots |->
                     IF j = i THEN c2
                     ELSE IF c2.state = "rejected" /\ hpc = "awaitAll"
                             /\ call[j].state = "running"
                          THEN Throw([call[j] EXCEPT !.timer = FALSE],
                                     Wrap(call[j].stage, AbortError))
                          ELSE call[j]]
       /\ hpc' = h2.hpc
       /\ res' = h2.res
       /\ results' = h2.results

\* The handler after slot i moved to c2.
AfterStep(i, c2) ==
    LET h2 == CASE c2.state = "fulfilled" -> OnFulfilled(Handler, i, c2.value)
                [] c2.state = "rejected" -> OnRejected(Handler, i, c2.error)
                [] OTHER -> Handler
    IN /\ call' = [call EXCEPT ![i] = c2]
       /\ hpc' = h2.hpc
       /\ res' = h2.res
       /\ results' = h2.results

\* createSinglePrediction up to its first await: build input, dispatch the direct POST.
createSinglePrediction(prompt, aspect, imageUrl) ==
    fetchRetry([IdleCall EXCEPT !.input = InputOf(prompt, aspect, imageUrl)],
               "official-predict")

\* Jobs calling createSinglePrediction one at a time: only the first call is made
\* before the handler's first await.
JobsOneAtATime(length, prompt, aspect, imageUrl) ==
    [i \in Slots |-> IF i = 1 /\ i <= length
                     THEN createSinglePrediction(prompt, aspect, imageUrl)
                     ELSE IdleCall]

\* const jobs = Array.from({ length: n }, () => createSinglePrediction(...)): every
\* call runs up to its first await, the dispatch of its direct POST, before
\* Array.from returns.
Jobs(length, prompt, aspect, imageUrl) ==
    [i \in Slots |-> IF i <= length
                     THEN createSinglePrediction(prompt, aspect, imageUrl)
                     ELSE IdleCall]

\* PromptRejected without the trim: !prompt alone.
PromptRejectedNoTrim(prompt) == Falsy(prompt)

\* !prompt || !prompt.trim()
PromptRejected(prompt) ==
    \/ Falsy(prompt)
    \/ prompt.type = "string" /\ Falsy(JsString(trim(prompt.chars)))

MissingPrompt == Err("", <<>>, 0, Text("Missing 'prompt'.", NullId))
MissingToken == Err("", <<>>, 0, Text("Missing REPLICATE_API_TOKEN on server.", NullId))
\* TokenMissing never noticing that the credential is not configured.
TokenMissingUnchecked == FALSE

\* !REPLICATE_TOKEN
TokenMissing == ~token

TypeError == Err("TypeError", <<>>, 0, Text("prompt.trim is not a function", NullId))

\* ------------------------------------------------------------------ inputs
Prompts ==
    {JsUndefined, JsString(<<>>), JsString(<<" ">>), JsString(<<" ", " ">>),
     JsString(<<" ", "a">>), JsNumber(0, 0), JsNumber(5, 0)}

NumImagesInputs ==
    {JsUndefined, JsString(<<"a">>), JsString(<<"3">>),
     JsNumber(-1, 0), JsNumber(0, 0), JsNumber(0, 1), JsNumber(1, 0), JsNumber(1, 1),
     JsNumber(2, 0), JsNumber(2, 1), JsNumber(5, 0)}

Aspects == {JsUndefined, JsString(<<"1", ":", "1">>)}

ImageUrls == {JsUndefined, JsString(<<"u">>)}

\* The request bodies tried: every combination for the prompts the handler rejects,
\* every numImages without aspect and imageUrl, and every aspect and imageUrl for
\* two values of numImages.
Requests ==
    {r \in Prompts \X NumImagesInputs \X Aspects \X ImageUrls :
        \/ PromptRejected(r[1])
        \/ r[3] = JsUndefined /\ r[4] = JsUndefined
        \/ r[2] \in {JsUndefined, JsNumber(2, 0)}}

PollIds == {IdOf(1, "official-predict")}

\* The bodies the upstream may send that are not the document asked for.
OddBodies ==
    {Text("{}", NullId), Text("", NullId), Text("null", NullId), Text("<html>", NullId),
     Text("{detail: upstream timeout}", NullId)}

\* The bodies of error responses.
ErrorBodies == {Text("<html>", NullId), Text("{detail: upstream timeout}", NullId)}

\* The documents the upstream sends for a 2xx, by the request of slot i.
Documents(i, c) ==
    CASE c.stage = "model-info" -> {Text("{latest_version}", IdOf(i, "version"))}
      [] c.stage = "poll" -> {Text(shape, req.id) : shape \in OutShapes}
      [] OTHER -> {Text(shape, IdOf(i, c.stage)) : shape \in OutShapes}

BodiesFor(i, c) ==
    IF ok(c.status) THEN Documents(i, c) \cup OddBodies ELSE ErrorBodies

\* The plain answer to the request of slot i: the document with a flat output list.
PlainDocument(i, c) ==
    CASE c.stage = "model-info" -> Text("{latest_version}", IdOf(i, "version"))
      [] c.stage = "poll" -> Text("flat", req.id)
      [] OTHER -> Text("flat", IdOf(i, c.stage))

\* ------------------------------------------------------------------ actions
\* POST /api/generate, from the request's arrival to the handler's first await.
Generate(prompt, numImages, aspect, imageUrl) ==
    /\ hpc = "idle"
    /\ req' = [kind |-> "generate", prompt |-> prompt, numImages |-> numImages,
               aspect |-> aspect, imageUrl |-> imageUrl, id |-> NullId,
               dataUrl |-> JsUndefined]
    /\ UNCHANGED <<disk, token, budget>>
    /\ IF PromptRejected(prompt)
       THEN /\ res' = ErrorRes(400, MissingPrompt)
            /\ hpc' = "responded"
            /\ UNCHANGED <<n, results, call>>
       ELSE IF prompt.type # "string"
       THEN /\ res' = ErrorRes(502, TypeError)
            /\ hpc' = "responded"
            /\ UNCHANGED <<n, results, call>>
       ELSE IF TokenMissing
       THEN /\ res' = ErrorRes(500, MissingToken)
            /\ hpc' = "responded"
            /\ UNCHANGED <<n, results, call>>
       ELSE /\ n' = EffectiveCount(numImages)
            /\ IF n' = Num(1, 0)
               THEN /\ call' = [call EXCEPT ![1] =
                                  createSinglePrediction(prompt, aspect, imageUrl)]
                    /\ hpc' = "awaitSingle"
                    /\ UNCHANGED <<res, results>>
               ELSE /\ call' = Jobs(ArrayLength(n'), prompt, aspect, imageUrl)
                    /\ results' = [k \in 1..ArrayLength(n') |-> EmptySlot]
                    /\ hpc' = "awaitAll"
                    /\ UNCHANGED res

\* GET /api/predictions/:id, from the request's arrival to the handler's first await.
Poll(id) ==
    /\ hpc = "idle"
    /\ req' = [NoReq EXCEPT !.kind = "poll", !.id = id]
    /\ call' = [call EXCEPT ![1] = fetchRetry(IdleCall, "poll")]
    /\ hpc' = "awaitPoll"
    /\ UNCHANGED <<disk, token, n, res, results, budget>>

Spend(fault) ==
    /\ fault => budget > 0
    /\ budget' = IF fault THEN budget - 1 ELSE budget

\* The response head of slot i's request arrives with status s: fetch resolves,
\* finally() clears the timer; a 2xx to a creation POST means the upstream created
\* a prediction.
HeadArrives(i, s) ==
    /\ call[i].state = "running" /\ call[i].phase = "head"
    /\ Spend(~ok(s))
    /\ call' = [call EXCEPT ![i] =
                  OnHead([@ EXCEPT !.hist = Append(@, Outcome("status", s)),
                                   !.acks = IF ok(s) /\ call[i].stage \in CreationStages
                                            THEN @ + 1 ELSE @],
                         s)]
    /\ UNCHANGED <<disk, token, req, n, hpc, res, results>>

\* The timer of slot i's request fires before the head arrived: controller.abort(),
\* fetch rejects with an AbortError.
Timeout(i) ==
    /\ call[i].state = "running" /\ call[i].phase = "head" /\ call[i].timer
    /\ Spend(TRUE)
    /\ AfterStep(i, Catch([call[i] EXCEPT !.timer = FALSE,
                                          !.hist = Append(@, Outcome("abort", 0))],
                          AbortError))
    /\ UNCHANGED <<disk, token, req, n>>

\* The request of slot i fails in the network before the head arrived.
NetFail(i) ==
    /\ call[i].state = "running" /\ call[i].phase = "head"
    /\ Spend(TRUE)
    /\ AfterStep(i, Catch([call[i] EXCEPT !.timer = FALSE,
                                          !.hist = Append(@, Outcome("neterr", 0))],
                          NetError))
    /\ UNCHANGED <<disk, token, req, n>>

\* resp.text() of slot i's response resolves with the body.
BodyArrives(i, text) ==
    /\ call[i].state = "running" /\ call[i].phase \in {"body", "errbody"}
    /\ text \in BodiesFor(i, call[i])
    /\ Spend(ok(call[i].status) /\ text # PlainDocument(i, call[i]))
    /\ AfterStep(i, IF call[i].phase = "body"
                    THEN Return([call[i] EXCEPT !.raw = text], text)
                    ELSE NonOk([call[i] EXCEPT !.raw = text], text))
    /\ UNCHANGED <<disk, token, req, n>>

\* resp.text() of slot i's response rejects (the connection closes early): inside
\* fetchRetry's try block for a non-ok response, in the caller for a 2xx.
BodyFails(i) ==
    /\ call[i].state = "running" /\ call[i].phase \in {"body", "errbody"}
    /\ Spend(TRUE)
    /\ LET c == [call[i] EXCEPT !.hist[Len(call[i].hist)] =
                                     Outcome("closed", call[i].status)]
       IN AfterStep(i, IF c.phase = "body" THEN Throw(c, CloseError)
                       ELSE Catch(c, CloseError))
    /\ UNCHANGED <<disk, token, req, n>>

\* The backoff sleep of slot i ends.
Wake(i) ==
    /\ call[i].state = "running" /\ call[i].phase = "sleep"
    /\ AfterStep(i, AfterSleep(call[i]))
    /\ UNCHANGED <<disk, token, req, n, budget>>

Steps ==
    \E i \in Slots :
        \/ \E s \in Statuses : HeadArrives(i, s)
        \/ Timeout(i)
        \/ NetFail(i)
        \/ \E text \in BodiesFor(i, call[i]) : BodyArrives(i, text)
        \/ BodyFails(i)
        \/ Wake(i)

\* ------------------------------------------------------------------ specifications
InitCommon ==
    /\ files = {}
    /\ writes = <<>>
    /\ req = NoReq
    /\ n = NaN
    /\ hpc = "idle"
    /\ res = NoRes
    /\ results = <<>>
    /\ call = [i \in Slots |-> IdleCall]

\* POST /api/generate against an upstream that misbehaves at most MaxFaults times.
Init == InitCommon /\ token \in BOOLEAN /\ budget = MaxFaults

Next ==
    \/ \E r \in Requests : Generate(r[1], r[2], r[3], r[4])
    \/ Steps

Spec == Init /\ [][Next]_vars

\* GET /api/predictions/:id, one fetchRetry call, against an upstream that may
\* misbehave at every attempt.
InitFetch == InitCommon /\ token = TRUE /\ budget = MAX_RETRIES + 2

NextFetch ==
    \/ \E id \in PollIds : Poll(id)
    \/ Steps

SpecFetch == InitFetch /\ [][NextFetch]_vars

\* ------------------------------------------------------------------ normalization
\* The response building of /api/generate on its own: the values the awaited calls
\* resolved with are drawn at the start, and the handler builds the response.
Url(name) == [of |-> NullId, at |-> name]
UrlLists == {<<>>, <<Url("a")>>, <<Url("b")>>, <<Url("a"), Url("b")>>}

\* The `output` values of a document: an array, or anything else, whose `images` and
\* `data` each are an array or not.
Outputs ==
    {[flat |-> Lst(l), images |-> NotLst, data |-> NotLst] : l \in UrlLists}
    \cup {[flat |-> NotLst, images |-> a, data |-> b] :
             a, b \in {NotLst} \cup {Lst(l) : l \in UrlLists}}

Predictions(k) ==
    {JsonObj(IdOf(k, "official-predict"), NullId, TRUE, "succeeded", o) : o \in Outputs}

InitNormalize ==
    /\ files = {}
    /\ writes = <<>>
    /\ token = TRUE
    /\ budget = 0
    /\ req = [NoReq EXCEPT !.kind = "generate", !.prompt = JsString(<<" ", "a">>)]
    /\ hpc \in {"awaitSingle", "awaitAll"}
    /\ n = IF hpc = "awaitSingle" THEN Num(1, 0) ELSE Num(2, 0)
    /\ res = NoRes
    /\ call = [i \in Slots |-> IdleCall]
    /\ \E v1 \in Predictions(1), v2 \in Predictions(2) :
          results = IF hpc = "awaitSingle"
                    THEN <<[filled |-> TRUE, value |-> v1]>>
                    ELSE <<[filled |-> TRUE, value |-> v1], [filled |-> TRUE, value |-> v2]>>

\* The single branch once createSinglePrediction resolved.
NormalizeSingle ==
    /\ hpc = "awaitSingle"
    /\ res' = SingleRes(results[1].value)
    /\ hpc' = "responded"
    /\ UNCHANGED <<disk, token, req, n, results, call, budget>>

\* The batch branch once Promise.all resolved.
NormalizeBatch ==
    /\ hpc = "awaitAll"
    /\ res' = BatchRes([k \in 1..Len(results) |-> results[k].value])
    /\ hpc' = "responded"
    /\ UNCHANGED <<disk, token, req, n, results, call, budget>>

NextNormalize == NormalizeSingle \/ NormalizeBatch

SpecNormalize == InitNormalize /\ [][NextNormalize]_vars

\* ------------------------------------------------------------------ upload
\* A data URL is a string of pieces; each piece is a run of characters the regular
\* expression of parseDataUrl treats alike. "\n" is the one piece `.` does not match.
MaxUrlLen == 4

UrlPieces == {"data:", "DATA:", "image/png", ";base64,", "QUFB", "\n"}

\* The i flag: the pattern's letters match either case.
Lower(piece) == IF piece = "DATA:" THEN "data:" ELSE piece

RECURSIVE SeqsUpTo(_, _)
SeqsUpTo(S, len) ==
    IF len = 0 THEN {<<>>}
    ELSE LET shorter == SeqsUpTo(S, len - 1)
         IN shorter \cup {Append(s, x) : s \in {t \in shorter : Len(t) = len - 1}, x \in S}

DataUrls ==
    {JsUndefined, JsNumber(5, 0)} \cup {JsString(s) : s \in SeqsUpTo(UrlPieces, MaxUrlLen)}

\* The random part of a file name: crypto.randomBytes(8).toString("hex").
Stems == {"00", "ff"}

NoMatch == [matched |-> FALSE, mime |-> <<>>, data |-> <<>>]

\* DataUrlExec matching /^data:(.+)$/i: the base64 marker is not asked for.
DataUrlExecNoMarker(s) ==
    IF /\ Len(s) >= 2
       /\ Lower(s[1]) = "data:"
       /\ \A j \in 2..Len(s) : s[j] # "\n"
    THEN [matched |-> TRUE, mime |-> SubSeq(s, 2, Len(s)), data |-> <<>>]
    ELSE NoMatch

\* /^data:(.+);base64,(.*)$/i.exec(s): the string starts with data:, (.+) is greedy
\* and so ends at the last ";base64," that leaves it one piece or more, and neither
\* group crosses a line end.
DataUrlExec(s) ==
    LET marks == {k \in 3..Len(s) : Lower(s[k]) = ";base64,"} IN
    IF /\ Len(s) >= 3
       /\ Lower(s[1]) = "data:"
       /\ marks # {}
       /\ \A j \in 2..Len(s) : s[j] # "\n"
    THEN LET k == CHOOSE x \in marks : \A y \in marks : y <= x
         IN [matched |-> TRUE, mime |-> SubSeq(s, 2, k - 1),
             data |-> SubSeq(s, k + 1, Len(s))]
    ELSE NoMatch

\* The string a value is converted to when the regular expression is run on it.
ToChars(v) ==
    CASE v.type = "string" -> v.chars
      [] v.type = "number" -> <<"5">>
      [] OTHER -> <<"undefined">>

\* Buffer.from(text, "base64"), kept symbolic.
BufferFrom(text) == [encoding |-> "base64", of |-> text]

ExtOf(mime) == IF mime = <<"image/png">> THEN ".png" ELSE ".bin"

\* parseDataUrl(dataUrl): ok = FALSE when it throws "Invalid data URL".
parseDataUrl(dataUrl) ==
    LET m == DataUrlExec(IF Falsy(dataUrl) THEN <<>> ELSE ToChars(dataUrl)) IN
    [ok |-> m.matched, mime |-> m.mime, data |-> BufferFrom(m.data), ext |-> ExtOf(m.mime)]

MissingDataUrl == Err("none", <<>>, 0, Text("Missing 'dataUrl'.", NullId))
InvalidDataUrl == Err("Error", <<>>, 0, Text("Invalid data URL", NullId))

\* fs.writeFileSync(filePath, data): creates the file or replaces its content.
writeFileSync(dir, name, data) ==
    {f \in dir : f.name # name} \cup {[name |-> name, data |-> data]}

\* POST /api/upload, the whole handler; stem is the random part of the name.
Upload(dataUrl, stem) ==
    /\ hpc = "idle"
    /\ req' = [NoReq EXCEPT !.kind = "upload", !.dataUrl = dataUrl]
    /\ hpc' = "responded"
    /\ UNCHANGED <<token, n, results, call, budget>>
    /\ IF Falsy(dataUrl)
       THEN /\ res' = ErrorRes(400, MissingDataUrl)
            /\ UNCHANGED disk
       ELSE LET parsed == parseDataUrl(dataUrl)
                name == [stem |-> stem, ext |-> parsed.ext]
            IN IF ~parsed.ok
               THEN /\ res' = ErrorRes(400, InvalidDataUrl)
                    /\ UNCHANGED disk
               ELSE /\ files' = writeFileSync(files, name, parsed.data)
                    /\ writes' = Append(writes, name)
                    /\ res' = [NoRes EXCEPT !.status = 200, !.url = name]

\* The upload directory holds nothing, or a file of an earlier upload.
InitUpload ==
    /\ token \in BOOLEAN
    /\ budget = 0
    /\ req = NoReq
    /\ n = NaN
    /\ hpc = "idle"
    /\ res = NoRes
    /\ results = <<>>
    /\ call = [i \in Slots |-> IdleCall]
    /\ writes = <<>>
    /\ files \in {{}, {[name |-> [stem |-> "00", ext |-> ".png"],
                        data |-> BufferFrom(<<>>)]}}

NextUpload == \E u \in DataUrls, stem \in Stems : Upload(u, stem)

SpecUpload == InitUpload /\ [][NextUpload]_vars

\* ------------------------------------------------------------------ one call
\* One createSinglePrediction call (the single branch of /api/generate) against an
\* upstream that misbehaves at most MaxCallFaults times, so that the call can enter
\* the fallback and fail or succeed in each of its later steps.
MaxCallFaults == 3

CallRequests == {r \in Requests : r[1] = JsString(<<" ", "a">>) /\ r[2] = JsUndefined}

InitCall == InitCommon /\ token = TRUE /\ budget = MaxCallFaults

NextCall ==
    \/ \E r \in CallRequests : Generate(r[1], r[2], r[3], r[4])
    \/ Steps

SpecCall == InitCall /\ [][NextCall]_vars

\* ------------------------------------------------------------------ a batch of two
\* A batch of two calls against an upstream that misbehaves at most MaxPairFaults
\* times: one call can fail while the other still has a retry or the fallback ahead.
MaxPairFaults == 2

PairRequests == {r \in Requests : r[1] = JsString(<<" ", "a">>) /\ r[2] = JsNumber(2, 0)}

InitPair == InitCommon /\ token = TRUE /\ budget = MaxPairFaults

NextPair ==
    \/ \E r \in PairRequests : Generate(r[1], r[2], r[3], r[4])
    \/ Steps

SpecPair == InitPair /\ [][NextPair]_vars

\* ------------------------------------------------------------------ observations
\* The createSinglePrediction calls launched so far.
Launched == Cardinality({i \in Slots : call[i].state # "idle"})

RECURSIVE SentUpTo(_)
SentUpTo(k) ==
    IF k = 0 THEN 0
    ELSE SentUpTo(k - 1) + call[k].sent["official-predict"] + call[k].sent["model-info"]
                         + call[k].sent["predictions"] + call[k].sent["poll"]

\* The HTTP requests issued to the upstream so far.
UpstreamCalls == SentUpTo(MAX_IMAGES)

\* The first k answers of a fetchRetry call were all the status s.
AllStatus(hist, k, s) == \A j \in 1..k : hist[j] = Outcome("status", s)

\* A status the specification calls terminal / an attempt's failure it calls transient.
Terminal(s) == ~ok(s) /\ s \notin {429, 502, 503, 504, 408}
TransientOutcome(o) ==
    \/ o.kind = "abort"
    \/ o.kind = "status" /\ o.status \in {429, 502, 503, 504, 408}

\* A prompt that is missing, empty or whitespace-only.
Blank(p) ==
    \/ p.type = "undefined"
    \/ p.type = "string" /\ \A k \in 1..Len(p.chars) : p.chars[k] = " "

\* The id a response body carries (null when it is no prediction document).
IsPrediction(text) == text.kind \in OutShapes
UpstreamId(text) == IF IsPrediction(text) THEN text.id ELSE NullId

\* ------------------------------------------------------------------ claims

\* C1: when the upstream answers 503 on the first N-1 attempts of a fetchRetry call
\* and a 2xx on the N-th (1 <= N <= MAX_RETRIES+1), fetchRetry has not thrown: after
\* k <= MAX_RETRIES answers of 503 the call is still running (reading, sleeping or
\* on attempt k+1), and on the 2xx it returns the response after exactly N attempts
\* with N-1 backoff waits, each longer than zero.
C1_RetryUntilSuccess ==
    \A i \in Slots :
        LET c == call[i]
            len == Len(c.hist)
        IN /\ (len >= 1 /\ len <= MAX_RETRIES /\ AllStatus(c.hist, len, 503)) =>
                  /\ c.state = "running"
                  /\ c.phase \in {"errbody", "sleep", "head"}
                  /\ c.tries = IF c.phase = "head" THEN len + 1 ELSE len
                  /\ Len(c.sleeps) = IF c.phase = "errbody" THEN len - 1 ELSE len
           /\ (len >= 1 /\ AllStatus(c.hist, len - 1, 503)
                  /\ c.hist[len].kind = "status" /\ ok(c.hist[len].status)) =>
                  /\ c.returned
                  /\ c.status = c.hist[len].status
                  /\ c.tries = len
                  /\ Len(c.sleeps) = len - 1
                  /\ \A j \in 1..Len(c.sleeps) : c.sleeps[j] > 0

\* C1 witness: the 2xx arrives on attempt MAX_RETRIES+1 and is returned.
C1_Witness ==
    \E i \in Slots :
        /\ Len(call[i].hist) = MAX_RETRIES + 1
        /\ AllStatus(call[i].hist, MAX_RETRIES, 503)
        /\ call[i].hist[MAX_RETRIES + 1] = Outcome("status", 200)
        /\ call[i].returned

\* C2 (as claimed): a createSinglePrediction call does not fail on a direct creation
\* POST answered 404, 405 or 400: no call is rejected in its direct stage with an
\* error of one of these statuses (it goes on to the metadata GET instead).
C2_FallbackOnNotFound ==
    \A i \in Slots :
        (call[i].state = "rejected" /\ call[i].stage = "official-predict")
            => call[i].error.status \notin {404, 405, 400}

\* C3: a /api/generate request whose prompt is missing, empty or whitespace-only is
\* answered 400 and no upstream request is issued, whatever numImages, aspect,
\* imageUrl and the credential are.
C3_BlankPromptRejected ==
    (req.kind = "generate" /\ Blank(req.prompt)) =>
        /\ res.status = 400
        /\ UpstreamCalls = 0
        /\ Launched = 0

\* C3 witness: a whitespace-only prompt, sent with numImages, aspect and imageUrl
\* while the credential is missing, has been answered.
C3_Witness ==
    /\ req.kind = "generate"
    /\ req.prompt = JsString(<<" ", " ">>)
    /\ req.numImages = JsNumber(5, 0)
    /\ req.aspect # JsUndefined /\ req.imageUrl # JsUndefined
    /\ ~token
    /\ res.status = 400

\* C4: a successful batch response holds exactly as many items as calls were
\* launched (N of them when the effective count is the integer N >= 2), and item k
\* is built from the value of the k-th launched call, in whatever order the calls
\* completed.
C4_BatchInSubmissionOrder ==
    (res.status = 200 /\ res.mode = "batch") =>
        /\ Len(res.items) = Launched
        /\ res.count = Launched
        /\ \A N \in 2..MAX_IMAGES : n = Num(N, 0) => Len(res.items) = N
        /\ \A k \in 1..Len(res.items) :
              /\ call[k].state = "fulfilled"
              /\ res.items[k].id = call[k].value.id
              /\ res.items[k].id \in {NullId, IdOf(k, call[k].stage)}

\* C4 witness: a batch of MAX_IMAGES answered 200, whose first call needed a retry
\* (so that later calls could complete before it).
C4_Witness ==
    /\ res.status = 200 /\ res.mode = "batch"
    /\ Len(res.items) = MAX_IMAGES
    /\ call[1].sleeps # <<>>
    /\ \A k \in 1..MAX_IMAGES : res.items[k].id = IdOf(k, "official-predict")

C6_TerminalSurfacedAtOnce ==
    \A i \in Slots :
        LET c == call[i] IN
        (c.hist # <<>> /\ c.hist[1].kind = "status" /\ Terminal(c.hist[1].status)
            /\ ~(Len(c.hist) = 1 /\ c.phase = "errbody")) =>
            /\ c.state = "rejected"
            /\ c.tries = 1
            /\ c.sleeps = <<>>
            /\ c.error.status = c.hist[1].status
            /\ c.error.text = c.raw

\* C7 (as claimed): a fetchRetry call that failed after MAX_RETRIES+1 attempts, all
\* of them transient failures, surfaces the failure of its last attempt, annotated
\* with the call label.
C7_LastErrorSurfaced ==
    \A i \in Slots :
        LET c == call[i]
            last == c.hist[Len(c.hist)]
        IN (c.state = "rejected" /\ Len(c.hist) = MAX_RETRIES + 1
               /\ \A j \in 1..Len(c.hist) : TransientOutcome(c.hist[j])) =>
               /\ c.error.labels # <<>> /\ c.error.labels[1] = c.stage
               /\ last.kind = "abort" => c.error.text = AbortText
               /\ last.kind = "status" => c.error.status = last.status

\* C8 (as claimed): an attempt in flight, waiting for the response head or reading
\* the response body, always has its timeout armed.
C8_EveryAttemptTimed ==
    \A i \in Slots :
        (call[i].state = "running" /\ call[i].phase \in {"head", "errbody", "body"})
            => call[i].timer

\* C9: in a batch (two or more calls launched), once any call has failed the client
\* has a 502 response with an error and no items, whatever the other calls did.
C9_NoPartialSuccess ==
    (req.kind = "generate" /\ Launched >= 2
        /\ \E i \in Slots : call[i].state = "rejected") =>
        /\ res.status = 502
        /\ res.error # NoErr
        /\ res.items = <<>>
        /\ res.mode = ""

\* C9 witness: a batch of MAX_IMAGES in which one call failed and the other three
\* succeeded, answered 502.
C9_Witness ==
    /\ Launched = MAX_IMAGES
    /\ Cardinality({i \in Slots : call[i].state = "fulfilled"}) = MAX_IMAGES - 1
    /\ Cardinality({i \in Slots : call[i].state = "rejected"}) = 1
    /\ res.status = 502

\* C10 (as claimed): the effective count n is an integer in [1,4]: numbers below 1
\* give 1, numbers above 4 give 4, a missing or non-numeric numImages gives 1; and
\* the number of calls launched equals n.
C10_CountIsClampedInteger ==
    (req.kind = "generate" /\ ~n.nan) =>
        LET x == req.numImages IN
        /\ n.half = 0
        /\ n.whole \in MIN_IMAGES..MAX_IMAGES
        /\ Launched = n.whole
        /\ (x.type = "number" /\ x.whole < MIN_IMAGES) => n = Num(MIN_IMAGES, 0)
        /\ (x.type = "number" /\ ~Leq(Num(x.whole, x.half), Num(MAX_IMAGES, 0)))
              => n = Num(MAX_IMAGES, 0)
        /\ Number(x).nan => n = Num(MIN_IMAGES, 0)

\* C11 (as claimed): a successful /api/generate response has mode "single" exactly
\* when one prediction call was made; otherwise it has mode "batch" and a count equal
\* to the number of calls made, which lies between 2 and MAX_IMAGES; a batch response
\* never has count 1.
C11_ModeMatchesCalls ==
    (req.kind = "generate" /\ res.status = 200) =>
        /\ res.mode = "single" <=> Launched = 1
        /\ res.mode = "batch" =>
              /\ res.count = Launched
              /\ res.count \in 2..MAX_IMAGES

\* The last answer the upstream gave to the call of slot 1 was a response with a
\* status (and not a timeout, a network failure or a broken body).
LastUpstreamStatus ==
    LET hist == call[1].hist IN
    IF hist # <<>> /\ hist[Len(hist)].kind = "status" THEN hist[Len(hist)].status ELSE 0

\* C12 (as claimed): the status of a /api/predictions/:id response equals the status
\* of the upstream's answer to the lookup, 2xx or not, and it is 502 only when no
\* upstream response was obtained.
C12_StatusPreserved ==
    (req.kind = "poll" /\ res.status # 0) =>
        /\ LastUpstreamStatus # 0 => res.status = LastUpstreamStatus
        /\ res.status = 502 => LastUpstreamStatus = 0

\* C12 (amended): a /api/predictions/:id response is 200 or 502 and nothing else: 200
\* with the parsed body exactly when fetchRetry returned a 2xx response whose body
\* was read and parsed, and 502 with the error of the failed call otherwise, a
\* non-2xx upstream status (such as 404) included, which the error then carries.
C12_PollAnswers200Or502 ==
    (req.kind = "poll" /\ res.status # 0) =>
        LET c == call[1] IN
        /\ res.status \in {200, 502}
        /\ res.status = 200 <=>
              (c.returned /\ ok(c.status) /\ c.state = "fulfilled"
                 /\ ParseBody(c.raw).ok)
        /\ res.status = 200 => res.body = ParseBody(c.raw).value
        /\ res.status = 502 =>
              /\ c.state = "rejected"
              /\ res.error = c.error
              /\ (Len(c.hist) = 1 /\ LastUpstreamStatus # 0 /\ ~ok(LastUpstreamStatus))
                    => res.error.status = LastUpstreamStatus

\* C12 witness: the upstream answered the lookup with 404 and the client got 502.
C12_Witness ==
    /\ req.kind = "poll"
    /\ LastUpstreamStatus = 404
    /\ res.status = 502
    /\ res.error.status = 404

\* C13: a /api/generate request with a non-blank prompt string, received while the
\* credential is not configured, is answered 500 at once and no upstream request is
\* issued and no prediction call launched, whatever numImages is.
C13_NoTokenFailsFast ==
    (req.kind = "generate" /\ ~token /\ req.prompt.type = "string"
        /\ ~Blank(req.prompt)) =>
        /\ res.status = 500
        /\ res.error = MissingToken
        /\ hpc = "responded"
        /\ UpstreamCalls = 0
        /\ Launched = 0

\* C13 witness: without a credential, a request for two images with aspect and
\* imageUrl has been answered 500.
C13_Witness ==
    /\ req.kind = "generate" /\ ~token
    /\ req.prompt = JsString(<<" ", "a">>)
    /\ req.numImages = JsNumber(2, 0)
    /\ req.aspect # JsUndefined /\ req.imageUrl # JsUndefined
    /\ res.status = 500

\* The document carrying the list l as its flat output, under images, under data.
AsFlat(l) == [flat |-> Lst(l), images |-> NotLst, data |-> NotLst]
AsImages(l) == [flat |-> NotLst, images |-> Lst(l), data |-> NotLst]
AsData(l) == [flat |-> NotLst, images |-> NotLst, data |-> Lst(l)]

\* C14: in a successful /api/generate response, single or batch, the output of item
\* k is the flat output of the k-th upstream result when that is a list, else its
\* output.images when that is a list, else its output.data when that is a list, else
\* null; so a list carried flat, under images or under data comes out as that same
\* list.
C14_OutputNormalized ==
    (req.kind = "generate" /\ res.status = 200 /\ Len(results) = Len(res.items)) =>
        \A k \in 1..Len(res.items) :
            LET o == results[k].value.output
                out == res.items[k].output
            IN /\ o.flat.isList => out = o.flat
               /\ (~o.flat.isList /\ o.images.isList) => out = o.images
               /\ (~o.flat.isList /\ ~o.images.isList /\ o.data.isList) => out = o.data
               /\ (~o.flat.isList /\ ~o.images.isList /\ ~o.data.isList) => out = NotLst
               /\ \A l \in UrlLists :
                     o \in {AsFlat(l), AsImages(l), AsData(l)} => out = Lst(l)

\* C14 witness: a batch response whose first result carried a list under data and
\* whose second carried the same list under images together with another under data.
C14_Witness ==
    /\ res.status = 200 /\ res.mode = "batch" /\ Len(results) = 2
    /\ results[1].value.output = AsData(<<Url("a"), Url("b")>>)
    /\ results[2].value.output.images = Lst(<<Url("a"), Url("b")>>)
    /\ results[2].value.output.data = Lst(<<Url("b")>>)
    /\ res.items[1].output = res.items[2].output

\* A dataUrl of the form data:<mime>;base64,<data> on one line.
MatchesGrammar(u) ==
    /\ u.type = "string"
    /\ \E k \in 3..Len(u.chars) :
          /\ u.chars[1] \in {"data:", "DATA:"}
          /\ u.chars[k] = ";base64,"
          /\ \A j \in 1..Len(u.chars) : u.chars[j] # "\n"

\* A well-formed dataUrl: data:, one media type, the marker, base64 text.
WellFormed(u) ==
    /\ u.type = "string"
    /\ Len(u.chars) >= 3
    /\ u.chars[1] = "data:" /\ u.chars[2] = "image/png" /\ u.chars[3] = ";base64,"
    /\ \A j \in 4..Len(u.chars) : u.chars[j] = "QUFB"

\* C15: a /api/upload request whose dataUrl is absent or does not match the data-URL
\* grammar is answered 400 and nothing is written to the upload directory; one whose
\* dataUrl is well-formed is answered 200 after exactly one file was written, which
\* the directory then holds under the name the response gives.
C15_UploadWritesOnlyWellFormed ==
    (req.kind = "upload" /\ hpc = "responded") =>
        /\ (req.dataUrl.type = "undefined" \/ ~MatchesGrammar(req.dataUrl)) =>
              /\ res.status = 400
              /\ writes = <<>>
              /\ \A f \in files : f.name.stem = "00" /\ f.data = BufferFrom(<<>>)
        /\ WellFormed(req.dataUrl) =>
              /\ res.status = 200
              /\ Len(writes) = 1
              /\ res.url = writes[1]
              /\ \E f \in files :
                    /\ f.name = writes[1]
                    /\ f.data = BufferFrom(SubSeq(req.dataUrl.chars, 4,
                                                  Len(req.dataUrl.chars)))
              /\ Cardinality({f \in files : f.name = writes[1]}) = 1

\* C15 witness: a dataUrl without the base64 marker was answered 400 with nothing
\* written.
C15_Witness ==
    /\ req.kind = "upload"
    /\ req.dataUrl = JsString(<<"data:", "image/png", "QUFB">>)
    /\ res.status = 400
    /\ writes = <<>>

\* C16 (as claimed): in one createSinglePrediction call the upstream acknowledges at
\* most one creation POST, direct or versioned, with a 2xx; and once a direct
\* creation POST was acknowledged, no versioned creation POST is sent.
C16_OneJobPerCall ==
    \A i \in Slots :
        /\ call[i].acks <= 1
        /\ (call[i].acks >= 1 /\ call[i].stage # "poll") => call[i].sent["predictions"] = 0

\* C17: whatever the upstream answers (transient and terminal statuses, timeouts,
\* network failures, broken bodies, in any mix), a fetchRetry call makes at most
\* MAX_RETRIES+1 attempts; after the answer to attempt MAX_RETRIES+1 it starts no
\* further attempt but has returned the response or, once the pending read or
\* sleep is over, thrown.
C17_AttemptsBounded ==
    \A i \in Slots :
        LET c == call[i] IN
        /\ c.tries <= MAX_RETRIES + 1
        /\ Len(c.hist) <= MAX_RETRIES + 1
        /\ c.attempt <= MAX_RETRIES + 1
        /\ c.attempt > MAX_RETRIES => c.state = "rejected"
        /\ (Len(c.hist) = MAX_RETRIES + 1 /\ c.phase \notin {"errbody", "sleep"}) =>
              c.returned \/ c.state = "rejected"

\* C17 witness: a call that threw after MAX_RETRIES+1 attempts, some of which timed
\* out and some of which were answered with a transient status.
C17_Witness ==
    \E i \in Slots :
        LET c == call[i] IN
        /\ c.state = "rejected"
        /\ c.tries = MAX_RETRIES + 1
        /\ \E j, k \in 1..Len(c.hist) :
              c.hist[j].kind = "abort" /\ c.hist[k].kind = "status"

\* min(1000 * 2^k, 8000), written out.
ExpectedWait(k) ==
    CASE k = 0 -> 1000
      [] k = 1 -> 2000
      [] k = 2 -> 4000
      [] OTHER -> 8000

\* C18: the j-th backoff wait of a fetchRetry call, which follows the failed attempt
\* with index j-1, lasts min(1000 * 2^(j-1), 8000) ms, whether that attempt failed
\* with a transient status or timed out; the waits of a call never decrease and
\* never exceed 8000 ms.
C18_BackoffSchedule ==
    \A i \in Slots :
        LET c == call[i] IN
        /\ \A j \in 1..Len(c.sleeps) :
              /\ c.sleeps[j] = ExpectedWait(j - 1)
              /\ c.sleeps[j] <= 8000
              /\ j > 1 => c.sleeps[j - 1] <= c.sleeps[j]
        /\ (c.state = "running" /\ c.phase = "sleep") =>
              /\ Len(c.sleeps) = c.attempt + 1
              /\ Len(c.hist) = c.attempt + 1

\* C18 witness: a call asleep for the fourth time, after a timed-out attempt, that
\* earlier slept after an attempt answered with a transient status.
C18_Witness ==
    \E i \in Slots :
        LET c == call[i] IN
        /\ c.phase = "sleep"
        /\ Len(c.sleeps) = MAX_RETRIES
        /\ c.hist[MAX_RETRIES].kind = "abort"
        /\ \E j \in 1..(MAX_RETRIES - 1) : c.hist[j].kind = "status"

\* C19: in a createSinglePrediction call the metadata GET is sent only after the
\* direct creation POST was, and the versioned creation POST only after the metadata
\* GET returned a 2xx whose body carries latest_version.id, which the call then
\* holds; a call that failed at the metadata GET (the GET failed, or its body has no
\* version id) has sent no versioned POST; a call that failed at the versioned POST
\* has sent nothing after it and surfaces that request's error.
C19_FallbackInOrder ==
    \A i \in Slots :
        LET c == call[i] IN
        /\ c.sent["model-info"] > 0 => c.sent["official-predict"] > 0
        /\ c.stage = "official-predict" =>
              c.sent["model-info"] = 0 /\ c.sent["predictions"] = 0
        /\ c.stage = "model-info" => c.sent["predictions"] = 0
        /\ c.sent["predictions"] > 0 =>
              /\ c.sent["model-info"] > 0
              /\ c.stage = "predictions"
              /\ c.version # NullId
              /\ c.version = IdOf(i, "version")
        /\ (c.state = "rejected" /\ c.stage = "model-info") =>
              /\ c.sent["predictions"] = 0
              /\ c.acks <= 1
        /\ (c.state = "rejected" /\ c.stage = "predictions") =>
              /\ c.phase = "none" /\ ~c.timer
              /\ c.error.labels # <<>> => c.error.labels[1] = "predictions"
              /\ req.kind = "generate" /\ n = Num(1, 0) => res.status = 502

\* C19 witness: a call whose metadata GET returned a 2xx without a version id has
\* failed with no versioned POST sent, after its direct POST was acknowledged.
C19_Witness ==
    \E i \in Slots :
        /\ call[i].state = "rejected" /\ call[i].stage = "model-info"
        /\ call[i].error.text = NoVersionText
        /\ call[i].sent["official-predict"] > 0
        /\ call[i].sent["predictions"] = 0

\* C20: in the batch branch of /api/generate, with N calls to make, all N
\* createSinglePrediction calls have been started and each has dispatched its direct
\* creation POST by the time the handler first awaits: in every state from then on,
\* and so before any call has received any answer.
C20_AllStartedBeforeAwait ==
    (req.kind = "generate" /\ hpc \in {"awaitAll", "responded"} /\ ~n.nan
        /\ n # Num(1, 0)) =>
        /\ Launched = n.whole
        /\ \A i \in 1..n.whole :
              /\ call[i].state # "idle"
              /\ call[i].sent["official-predict"] >= 1
        /\ \A N \in 2..MAX_IMAGES : n = Num(N, 0) => Launched = N

\* C20 witness: a batch of MAX_IMAGES in which every call has its direct POST in
\* flight and none has received an answer yet.
C20_Witness ==
    /\ hpc = "awaitAll"
    /\ n = Num(MAX_IMAGES, 0)
    /\ \A i \in 1..MAX_IMAGES :
          /\ call[i].stage = "official-predict" /\ call[i].phase = "head"
          /\ call[i].sent["official-predict"] = 1
          /\ call[i].hist = <<>>

\* C22 (as claimed): a fetchRetry call sleeps only when another attempt follows: it
\* is never asleep after the failure of its last permitted attempt (the one with
\* index MAX_RETRIES), so one call sleeps at most MAX_RETRIES times, whether its
\* attempts failed with transient statuses or timed out.
C22_NoSleepAfterLastAttempt ==
    \A i \in Slots :
        /\ (call[i].state = "running" /\ call[i].phase = "sleep")
              => call[i].attempt < MAX_RETRIES
        /\ Len(call[i].sleeps) <= MAX_RETRIES

\* The next step of a running call that costs the upstream no misbehaviour: the
\* response head, the body, or the end of the sleep it is waiting for.
Progress(j) ==
    \/ \E s \in Statuses : HeadArrives(j, s)
    \/ \E text \in BodiesFor(j, call[j]) : BodyArrives(j, text)
    \/ Wake(j)

\* A step leaves the response alone once it was sent, and a step in which a call
\* fails changes no other call.
NoCancelStep ==
    /\ hpc = "responded" => (res' = res /\ hpc' = hpc /\ results' = results)
    /\ \A i \in Slots :
          (call[i].state = "running" /\ call'[i].state = "rejected") =>
              \A j \in Slots \ {i} : call'[j] = call[j]

\* C21: in a batch, the step in which one call fails changes none of its siblings;
\* once the 502 response was sent, every sibling still running keeps its own timer
\* and request state and can go on (receive its response, end its sleep and retry,
\* enter the fallback), and no later step, a sibling's success or failure included,
\* changes the response or adds to it.
C21_NoCancellation ==
    /\ [](\A j \in Slots :
            (req.kind = "generate" /\ res.status = 502 /\ call[j].state = "running")
                => ENABLED Progress(j))
    /\ [][NoCancelStep]_vars

\* C21 witness: after the 502 for the failure of the first call of a batch, the
\* second call went through the fallback and succeeded; Promise.all no longer stored
\* its value and the response holds the first call's error and no items.
C21_Witness ==
    /\ req.kind = "generate" /\ res.status = 502 /\ Len(results) >= 2
    /\ call[1].state = "rejected" /\ res.error = call[1].error
    /\ call[2].state = "fulfilled" /\ call[2].stage = "predictions"
    /\ ~results[2].filled
    /\ res.items = <<>>

====
